---- MODULE Spec2Model ----
(***************************************************************************)
(* The hot-reloadable geo-IP dataset manager of                            *)
(* management/server/geolocation/geolocation.go: the Geolocation struct    *)
(* (db, sha256sum, mux, stopCh, locationDB), its constructor, Lookup,      *)
(* Stop, and the background reloader with its reload step.                 *)
(*                                                                         *)
(* Every goroutine is a process with a program counter.  A step of the     *)
(* model is one access to shared state (a lock operation, a read or write  *)
(* of a field of the struct, a call on the dataset handle, a read of the   *)
(* backing file), so that every interleaving Go permits is a behaviour.    *)
(***************************************************************************)
EXTENDS Integers, Sequences, FiniteSets, TLC

\* ---------------------------------------------------------------- bounds
\* File contents are 0..MaxContent; content 0 is a malformed (e.g. truncated)
\* database, every other content is a well-formed one.
MaxContent == 2
\* External writes to the backing file.
MaxWrites == 2
\* Timer expiries of the reloader (ticks).
MaxTicks == 2
\* Calls of Stop, made one after the other.
MaxStops == 2
\* Goroutines calling Lookup concurrently (each calls any number of times).
NumLookers == 2
\* Digits of the date part of a database file name.
MaxDigit == 2
\* Files in the data directory.
MaxFiles == 3
\* Rows the metadata store returns to one query.
MaxRows == 3

Contents == 0..MaxContent
Lookers == 1..NumLookers

\* ------------------------------------------------------- pure operations
\* maxminddb.Open accepts a file only if it is a well-formed database.
WellFormed(c) == c # 0

\* calculateFileSHA256: the digest of the whole file content.  Distinct
\* contents have distinct digests (SHA-256 taken as collision free); a digest
\* is not a content, so the two are never compared with each other.
Hash(c) == <<"sha256", c>>
NoSum == <<"none">>

\* openDB(path) on a file holding content c: TRUE is success.  A malformed file
\* never opens; a well-formed one opens unless os.Stat or the mapping fails.
OpenOutcomes(c) == IF WellFormed(c) THEN {TRUE, FALSE} ELSE {FALSE}

\* reloader, first comparison: !bytes.Equal(gl.sha256sum, newSha256sum1).
ChangedAlways(recorded, sum) == TRUE
Changed(recorded, sum) == recorded # sum

\* reloader, second comparison: !bytes.Equal(newSha256sum1, newSha256sum2).
UnstableNever(s1, s2) == FALSE
Unstable(s1, s2) == s1 # s2

\* reload: gl.sha256sum = newSha256sum.
KeepFingerprint(recorded, new) == recorded
NewFingerprint(recorded, new) == new

\* reload: gl.db = db.
KeepHandle(active, new) == active
NewHandle(active, new) == new

\* sync.RWMutex: RLock proceeds only while no writer holds or awaits the lock.
RLockIgnoresWriter(w) == TRUE
RLockFree(w) == w = "none"

\* sync.RWMutex: Lock proceeds only once every reader has released.
LockIgnoresReaders(rs) == TRUE
LockFree(rs) == rs = {}

\* reload: defer gl.mux.Unlock(), on every return of reload.
UnlockForgotten(m) == m
Unlock(m) == [m EXCEPT !.writer = "none"]

\* reloader's select: case <-gl.stopCh is ready once the channel is closed.
StopNeverSeen(ch) == FALSE
StopSignalled(ch) == ch = "closed"

\* (*maxminddb.Reader).Close as called on a handle: it starts releasing the
\* mapping of an open handle and is a no-op on a released one.
BeginClose(h) == IF h.state = "open" THEN [h EXCEPT !.state = "closing"] ELSE h
\* ... and when it returns the handle is released, whatever it returns.
EndClose(h) == [h EXCEPT !.state = "closed"]
\* Close can report an error (TRUE) only when it released a mapping.
CloseErrs(h) == IF h.state = "closing" THEN {FALSE, TRUE} ELSE {FALSE}

\* gl.db.Lookup(ip, &record) on a handle: a record (or not-found) from an open
\* handle, the reader's "closed database" error from a released one, and a data
\* race with the release when the handle is being closed: any of the two, or a
\* fault on the unmapped memory.
ReadOutcomes(st) ==
    CASE st = "open" -> {"ok"}
      [] st = "closed" -> {"closedErr"}
      [] OTHER -> {"ok", "closedErr", "fault"}

\* ------------------------------------------------ database files on disk
\* A file name of the data directory is stem ++ mid ++ ext, mid a string of the
\* digits 1..MaxDigit.  mmdbPattern and geonamesdbPattern are stem ++ "*" ++
\* ext; the old names have no date part.
mmdbPattern == [stem |-> "GeoLite2-City-maxmind_", ext |-> ".mmdb"]
geonamesdbPattern == [stem |-> "GeoLite2-City-geonames_", ext |-> ".db"]
oldMMDBFilename == [stem |-> "GeoLite2-City", mid |-> <<>>, ext |-> ".mmdb"]
oldGeoNamesDBFilename == [stem |-> "geonames", mid |-> <<>>, ext |-> ".db"]
NoFile == [stem |-> "", mid |-> <<>>, ext |-> ""]

\* strings.Replace(filenamePattern, "*", date, 1)
Named(pattern, date) == [stem |-> pattern.stem, mid |-> date, ext |-> pattern.ext]

Stamps == {<<a>> : a \in 1..MaxDigit} \cup {<<a, b>> : a, b \in 1..MaxDigit}
MmdbNames == {Named(mmdbPattern, s) : s \in Stamps}
GeonamesNames == {Named(geonamesdbPattern, <<a>>) : a \in 1..MaxDigit}
\* Files of the directory that match neither pattern.
OtherNames ==
    {oldMMDBFilename, oldGeoNamesDBFilename,
     [stem |-> "GeoLite2-City-maxmind_", mid |-> <<1>>, ext |-> ".mmdb.part"]}
FileNames == MmdbNames \cup GeonamesNames \cup OtherNames

\* What GetMaxMindFilenames hands on as mmdbFile and geonamesdbFile: a name
\* made from the pattern, or the old name when none could be had.
MmdbFiles == MmdbNames \cup {oldMMDBFilename}
GeonamesFiles == GeonamesNames \cup {oldGeoNamesDBFilename}

\* path.Join(dataDir, name) and path.Base.
Join(dataDir, name) == [dir |-> dataDir, base |-> name]
Base(p) == p.base

\* filepath.Glob's match of a name against stem ++ "*" ++ ext: "*" stands for
\* any string, the empty one too.
Matches(pattern, n) == n.stem = pattern.stem /\ n.ext = pattern.ext

\* The order of two strings of digits, character by character, a proper prefix
\* first: the order of two names that match one pattern ("." sorts before
\* every digit).
RECURSIVE LexLess(_, _)
LexLess(s, t) ==
    IF t = <<>> THEN FALSE
    ELSE IF s = <<>> THEN TRUE
    ELSE IF Head(s) # Head(t) THEN Head(s) < Head(t)
    ELSE LexLess(Tail(s), Tail(t))

\* filepath.Glob returns its matches in lexical order.
RECURSIVE Sorted(_)
Sorted(S) ==
    IF S = {} THEN <<>>
    ELSE LET least == CHOOSE n \in S :
                          \A m \in S \ {n} : LexLess(n.mid, m.mid)
         IN  <<least>> \o Sorted(S \ {least})

\* getExistingDatabases(pattern): the paths in directory d that match.
getExistingDatabases(pattern, d) ==
    LET names == Sorted({n \in d : Matches(pattern, n)})
    IN  [i \in 1..Len(names) |-> Join("dataDir", names[i])]

\* cleanupOldDatabases: if path.Base(db) == currentFile { continue }
KeepsNothing(db, currentFile) == FALSE
IsCurrent(db, currentFile) == Base(db) = currentFile

\* cleanupOldDatabases, the loop over files: os.Remove of every path but the
\* current one, returning at the first error (os.Remove fails on file bad).
RECURSIVE RemoveEach(_, _, _, _)
RemoveEach(files, currentFile, d, bad) ==
    IF files = <<>> THEN [dir |-> d, err |-> FALSE]
    ELSE IF IsCurrent(Head(files), currentFile)
    THEN RemoveEach(Tail(files), currentFile, d, bad)
    ELSE IF Base(Head(files)) = bad THEN [dir |-> d, err |-> TRUE]
    ELSE RemoveEach(Tail(files), currentFile, d \ {Base(Head(files))}, bad)

cleanupOldDatabases(pattern, currentFile, d, bad) ==
    RemoveEach(getExistingDatabases(pattern, d), currentFile, d, bad)

\* cleanupMaxMindDatabases, one turn of its loop: switch file { case mmdbFile:
\* ...; case geonamesdbFile: ... }, the first case that equals file.
CleanupFor(file, mmdbFile, geonamesdbFile, d, bad) ==
    IF file = mmdbFile
    THEN cleanupOldDatabases(mmdbPattern, file, d, bad)
    ELSE IF file = geonamesdbFile
    THEN cleanupOldDatabases(geonamesdbPattern, file, d, bad)
    ELSE [dir |-> d, err |-> FALSE]

\* cleanupMaxMindDatabases: for _, file := range {mmdbFile, geonamesdbFile}.
cleanupMaxMindDatabases(d, mmdbFile, geonamesdbFile, bad) ==
    LET first == CleanupFor(mmdbFile, mmdbFile, geonamesdbFile, d, bad)
    IN  IF first.err THEN first
        ELSE CleanupFor(geonamesdbFile, mmdbFile, geonamesdbFile, first.dir,
                        bad)

\* getFilenameFromURL(databaseURL): an error, or the file name the server
\* announces, here as the parts of its base name around the first "_"
\* ("GeoLite2-City_20240101.tar.gz" is <<"GeoLite2-City", date>>).
RemoteOutcomes ==
    {[err |-> TRUE, parts |-> <<>>], [err |-> FALSE, parts |-> <<"GeoLite2-City">>]}
        \cup {[err |-> FALSE, parts |-> <<"GeoLite2-City", s>>] : s \in Stamps}

\* getDatabaseFilename: if err != nil || !autoUpdate
UseExisting(err, autoUpdate) == err \/ ~autoUpdate

\* getDatabaseFilename: files[len(files)-1]
FirstOf(files) == files[1]
LastOf(files) == files[Len(files)]

\* getDatabaseFilename(databaseURL, filenamePattern, autoUpdate) with directory
\* d and getFilenameFromURL's outcome remote (asked only under autoUpdate).
\* strings.SplitN(basename, "_", 2)[1] panics on a base name without "_".
getDatabaseFilename(pattern, autoUpdate, remote, d) ==
    LET err == autoUpdate /\ remote.err
        files == getExistingDatabases(pattern, d)
    IN  IF UseExisting(err, autoUpdate)
        THEN IF Len(files) < 1
             THEN [res |-> "err", name |-> NoFile]
             ELSE [res |-> "ok", name |-> Base(LastOf(files))]
        ELSE IF Len(remote.parts) < 2
             THEN [res |-> "panic", name |-> NoFile]
             ELSE [res |-> "ok",
                   name |-> Base(Join("dataDir", Named(pattern, remote.parts[2])))]

\* --------------------------------------------------- the metadata queries
\* Rows of the metadata store; "" is the empty display name.
CountryRows == [CountryISOCode : {"DE", "FR"}, CountryName : {"", "name"}]
CityRows == [GeoNameID : 1..2, CityName : {"", "name"}]
RowLists(rows) == UNION {[1..n -> rows] : n \in 0..MaxRows}
\* What a query of the store returns: its rows and its error ("nil": none).
StoreOutcomes(rows) == [rows : RowLists(rows), err : {"nil", "storeErr"}]

\* GetAllCountries: if country.CountryName != ""
AnyCountry(country) == TRUE
CountryNamed(country) == country.CountryName # ""

\* GetCitiesByCountry: if city.CityName != ""
CityNamed(city) == city.CityName # ""

\* GetAllCountries: the loop appending to countries.
RECURSIVE KeepCountries(_)
KeepCountries(allCountries) ==
    IF allCountries = <<>> THEN <<>>
    ELSE IF CountryNamed(Head(allCountries))
    THEN <<Head(allCountries)>> \o KeepCountries(Tail(allCountries))
    ELSE KeepCountries(Tail(allCountries))

\* GetCitiesByCountry: the loop appending to cities.
RECURSIVE KeepCities(_)
KeepCities(allCities) ==
    IF allCities = <<>> THEN <<>>
    ELSE IF CityNamed(Head(allCities))
    THEN <<Head(allCities)>> \o KeepCities(Tail(allCities))
    ELSE KeepCities(Tail(allCities))

\* GetAllCountries(), store being what gl.locationDB.GetAllCountries returns.
GetAllCountries(store) ==
    IF store.err # "nil" THEN [rows |-> <<>>, err |-> store.err]
    ELSE [rows |-> KeepCountries(store.rows), err |-> "nil"]

\* GetCitiesByCountry(countryISOCode), store being what
\* gl.locationDB.GetCitiesByCountry(countryISOCode) returns.
GetCitiesByCountry(store) ==
    IF store.err # "nil" THEN [rows |-> <<>>, err |-> store.err]
    ELSE [rows |-> KeepCities(store.rows), err |-> "nil"]

\* ------------------------------------------------------------------ state
VARIABLES
    file,       \* content of the backing file at mmdbPath
    writes,     \* external writes so far
    handles,    \* every handle ever opened: [content, state]
    db,         \* gl.db: index into handles (0: not yet constructed)
    sha256sum,  \* gl.sha256sum
    stopCh,     \* gl.stopCh: "open" or "closed"
    locationDB, \* gl.locationDB: "none", "open" or "closed"
    mux,        \* gl.mux: [readers: set of lookers, writer: none|pending|held]
    ctor,       \* NewGeolocation's position
    rl,         \* the reloader goroutine: [pc, sum1, sum2, newDb]
    ticks,      \* timer expiries so far
    tick,       \* what the current (or last) tick did
    run,        \* the current run of consecutive ticks that found no change
    lk,         \* the Lookup callers
    stop,       \* the Stop caller
    hist,       \* history of the run of the service
    dir,        \* the names of the files in the data directory
    call        \* the last call of a file or metadata helper, with its result

serviceVars == <<file, writes, handles, db, sha256sum, stopCh, locationDB, mux,
                 ctor, rl, ticks, tick, run, lk, stop, hist>>
helperVars == <<dir, call>>
vars == <<serviceVars, helperVars>>

IdleLooker == [pc |-> "idle", h |-> 0, acq |-> 0, res |-> "none",
               afterStop |-> FALSE, beginNew |-> 0]
NoTick == [hashes |-> 0, opens |-> 0, closes |-> 0, db0 |-> 0, sha0 |-> NoSum,
           outcome |-> "none"]
NoRun == [len |-> 0, hashes |-> 0, opens |-> 0, closes |-> 0, db0 |-> 0,
          sha0 |-> NoSum]
\* installed: the handle the last successful construction or reload installed;
\* stopReturned: a call of Stop has returned; and, of the coordinator while it
\* runs: reloadFailed, a reload returned an error; fault, a hash or a reload
\* failed; wr, the writes since the fingerprint was first recorded; sampled, a
\* tick has taken its first sample since the last write.
NoHist == [installed |-> 0, stopReturned |-> FALSE, reloadFailed |-> FALSE,
           fault |-> FALSE, wr |-> 0, sampled |-> FALSE]
IdleReloader == [pc |-> "none", sum1 |-> NoSum, sum2 |-> NoSum, newDb |-> 0]

Init ==
    /\ file \in Contents
    /\ writes = 0
    /\ handles = <<>>
    /\ db = 0
    /\ sha256sum = NoSum
    /\ stopCh = "open"
    /\ locationDB = "none"
    /\ mux = [readers |-> {}, writer |-> "none"]
    /\ ctor = "load"
    /\ rl = IdleReloader
    /\ ticks = 0
    /\ tick = NoTick
    /\ run = NoRun
    /\ lk = [l \in Lookers |-> IdleLooker]
    /\ stop = [pc |-> "idle", calls |-> 0, h |-> 0, res |-> "none",
               storeTried |-> FALSE]
    /\ hist = NoHist
    /\ dir = {}
    /\ call = [op |-> "none"]

\* --------------------------------------------------------- the environment
\* Another process replaces the content of the backing file.
Write(c) ==
    /\ writes < MaxWrites
    /\ ctor # "failed"
    /\ rl.pc # "stopped"
    /\ c # file
    /\ file' = c
    /\ writes' = writes + 1
    /\ hist' = [hist EXCEPT
                  !.wr = IF sha256sum = NoSum THEN 0 ELSE @ + 1,
                  !.sampled = FALSE]
    /\ UNCHANGED <<handles, db, sha256sum, stopCh, locationDB, mux, ctor, rl,
                   ticks, tick, run, lk, stop>>
    /\ UNCHANGED helperVars

\* ------------------------------------------------------------ construction
\* NewGeolocation: loadGeolocationDatabases(dataDir, mmdbFile, geonamesdbFile)
\* fetches the files that are missing; on an error the constructor returns it.
CtorLoad ==
    /\ ctor = "load"
    /\ \E err \in BOOLEAN : ctor' = IF err THEN "failed" ELSE "cleanup"
    /\ UNCHANGED <<file, writes, handles, db, sha256sum, stopCh, locationDB,
                   mux, rl, ticks, tick, run, lk, stop, hist>>
    /\ UNCHANGED helperVars

\* The data directory as NewGeolocation's cleanup finds it: the current mmdb
\* file and one older one.
CtorDir == {Named(mmdbPattern, <<1>>), Named(mmdbPattern, <<2>>)}

\* NewGeolocation: cleanupMaxMindDatabases(dataDir, mmdbFile, geonamesdbFile);
\* on an error (a file that os.Remove cannot remove) the constructor returns
\* it.  The backing file is the current one, which the cleanup leaves alone.
CtorCleanup ==
    /\ ctor = "cleanup"
    /\ \E bad \in CtorDir \cup {NoFile} :
         LET r == cleanupMaxMindDatabases(CtorDir, Named(mmdbPattern, <<2>>),
                                          oldGeoNamesDBFilename, bad)
         IN  ctor' = IF r.err THEN "failed" ELSE "open"
    /\ UNCHANGED <<file, writes, handles, db, sha256sum, stopCh, locationDB,
                   mux, rl, ticks, tick, run, lk, stop, hist>>
    /\ UNCHANGED helperVars

\* NewGeolocation: db, err := openDB(mmdbPath)
CtorOpen ==
    /\ ctor = "open"
    /\ \E ok \in OpenOutcomes(file) :
         IF ok
         THEN /\ handles' = Append(handles, [content |-> file, state |-> "open"])
              /\ db' = Len(handles) + 1
              /\ ctor' = "hash"
         ELSE /\ ctor' = "failed"
              /\ UNCHANGED <<handles, db>>
    /\ UNCHANGED <<file, writes, sha256sum, stopCh, locationDB, mux, rl, ticks,
                   tick, run, lk, stop, hist>>
    /\ UNCHANGED helperVars

\* NewGeolocation: sha256sum, err := calculateFileSHA256(mmdbPath)
CtorHash ==
    /\ ctor = "hash"
    /\ \E err \in BOOLEAN :
         IF err
         THEN /\ ctor' = "failed"
              /\ UNCHANGED sha256sum
         ELSE /\ sha256sum' = Hash(file)
              /\ ctor' = "store"
    /\ UNCHANGED <<file, writes, handles, db, stopCh, locationDB, mux, rl,
                   ticks, tick, run, lk, stop, hist>>
    /\ UNCHANGED helperVars

\* NewGeolocation: NewSqliteStore, the struct, go geo.reloader(ctx)
CtorStore ==
    /\ ctor = "store"
    /\ \E err \in BOOLEAN :
         IF err
         THEN /\ ctor' = "failed"
              /\ UNCHANGED <<locationDB, rl, hist>>
         ELSE /\ locationDB' = "open"
              /\ ctor' = "done"
              /\ rl' = [rl EXCEPT !.pc = "select"]
              /\ hist' = [hist EXCEPT !.installed = db]
    /\ UNCHANGED <<file, writes, handles, db, sha256sum, stopCh, mux, ticks,
                   tick, run, lk, stop>>
    /\ UNCHANGED helperVars

\* ---------------------------------------------------------------- reloader
\* The tick is over: back to the select at the top of the loop (the two samples
\* stay on record until the next tick).
EndTick(outcome) == [tick EXCEPT !.outcome = outcome]
ToSelect == [rl EXCEPT !.pc = "select", !.newDb = 0]

\* reloader: calculateFileSHA256 returned an error: it is logged, continue.
HashIgnored == [rl EXCEPT !.pc = "lock"]
HashFailed == ToSelect

\* select: case <-time.After(gl.reloadCheckInterval), then
\* gl.locationDB.reload(ctx), whose error is only logged.  The timer is created
\* when the select is entered, so with stopCh already closed the stop case is
\* the only ready one; a goroutine parked in the select is resumed by the first
\* of the two events.
Tick ==
    /\ rl.pc = "select"
    /\ ~StopSignalled(stopCh)
    /\ ticks < MaxTicks
    /\ ticks' = ticks + 1
    /\ rl' = [IdleReloader EXCEPT !.pc = "sample1"]
    /\ tick' = [hashes |-> 0, opens |-> 0, closes |-> 0, db0 |-> db,
                sha0 |-> sha256sum, outcome |-> "running"]
    /\ UNCHANGED <<file, writes, handles, db, sha256sum, stopCh, locationDB,
                   mux, ctor, run, lk, stop, hist>>
    /\ UNCHANGED helperVars

\* select: case <-gl.stopCh: return.  The records of the coordinator's cycles
\* end with it.
ReloaderStop ==
    /\ rl.pc = "select"
    /\ StopSignalled(stopCh)
    /\ rl' = [IdleReloader EXCEPT !.pc = "stopped"]
    /\ tick' = NoTick
    /\ run' = NoRun
    /\ hist' = [NoHist EXCEPT !.installed = hist.installed,
                              !.stopReturned = hist.stopReturned]
    /\ UNCHANGED <<file, writes, handles, db, sha256sum, stopCh, locationDB,
                   mux, ctor, ticks, lk, stop>>
    /\ UNCHANGED helperVars

\* The run of consecutive ticks whose first sample equalled the recorded
\* fingerprint, after one more first sample: it grows by this tick, or ends.
RunAfterSample(same) ==
    IF ~same THEN NoRun
    ELSE IF run.len = 0
    THEN [len |-> 1, hashes |-> 1, opens |-> 0, closes |-> 0, db0 |-> db,
          sha0 |-> sha256sum]
    ELSE [run EXCEPT !.len = @ + 1, !.hashes = @ + 1]

\* newSha256sum1, err := calculateFileSHA256(gl.mmdbPath); the comparison
\* with gl.sha256sum.
Sample1 ==
    /\ rl.pc = "sample1"
    /\ \E err \in BOOLEAN :
         LET sum == Hash(file)
             counted == [tick EXCEPT !.hashes = @ + 1]
         IN  IF err
             THEN /\ tick' = [counted EXCEPT !.outcome = "hashErr"]
                  /\ rl' = HashFailed
                  /\ run' = NoRun
                  /\ hist' = [hist EXCEPT !.fault = TRUE, !.sampled = TRUE]
             ELSE /\ hist' = [hist EXCEPT !.sampled = TRUE]
                  /\ IF Changed(sha256sum, sum)
                     THEN /\ tick' = counted
                          /\ rl' = [rl EXCEPT !.pc = "sample2", !.sum1 = sum]
                          /\ run' = RunAfterSample(sha256sum = sum)
                     ELSE /\ tick' = [counted EXCEPT !.outcome = "unchanged"]
                          /\ rl' = ToSelect
                          /\ run' = RunAfterSample(sha256sum = sum)
    /\ UNCHANGED <<file, writes, handles, db, sha256sum, stopCh, locationDB,
                   mux, ctor, ticks, lk, stop>>
    /\ UNCHANGED helperVars

\* time.Sleep(50 ms); newSha256sum2, err := calculateFileSHA256(gl.mmdbPath);
\* the comparison of the two samples.
Sample2 ==
    /\ rl.pc = "sample2"
    /\ \E err \in BOOLEAN :
         LET sum == Hash(file)
             counted == [tick EXCEPT !.hashes = @ + 1]
         IN  IF err
             THEN /\ tick' = [counted EXCEPT !.outcome = "hashErr"]
                  /\ rl' = HashFailed
                  /\ hist' = [hist EXCEPT !.fault = TRUE]
             ELSE /\ hist' = hist
                  /\ IF Unstable(rl.sum1, sum)
                     THEN /\ tick' = [counted EXCEPT !.outcome = "unstable"]
                          /\ rl' = [ToSelect EXCEPT !.sum2 = sum]
                     ELSE /\ tick' = counted
                          /\ rl' = [rl EXCEPT !.pc = "lock", !.sum2 = sum]
    /\ run' = IF run.len > 0 THEN [run EXCEPT !.hashes = @ + 1] ELSE run
    /\ UNCHANGED <<file, writes, handles, db, sha256sum, stopCh, locationDB,
                   mux, ctor, ticks, lk, stop>>
    /\ UNCHANGED helperVars

\* reload: gl.mux.Lock() is called: from now on no new reader is admitted ...
ReloadLock ==
    /\ rl.pc = "lock"
    /\ mux' = [mux EXCEPT !.writer = "pending"]
    /\ rl' = [rl EXCEPT !.pc = "acquire"]
    /\ UNCHANGED <<file, writes, handles, db, sha256sum, stopCh, locationDB,
                   ctor, ticks, tick, run, lk, stop, hist>>
    /\ UNCHANGED helperVars

\* ... and it returns once the readers that hold the lock have released it.
ReloadAcquire ==
    /\ rl.pc = "acquire"
    /\ LockFree(mux.readers)
    /\ mux' = [mux EXCEPT !.writer = "held"]
    /\ rl' = [rl EXCEPT !.pc = "close"]
    /\ UNCHANGED <<file, writes, handles, db, sha256sum, stopCh, locationDB,
                   ctor, ticks, tick, run, lk, stop, hist>>
    /\ UNCHANGED helperVars

\* reload: err := gl.db.Close() starts releasing the active handle ...
ReloadClose ==
    /\ rl.pc = "close"
    /\ handles' = [handles EXCEPT ![db] = BeginClose(@)]
    /\ rl' = [rl EXCEPT !.pc = "closing"]
    /\ tick' = [tick EXCEPT !.closes = @ + 1]
    /\ run' = IF run.len > 0 THEN [run EXCEPT !.closes = @ + 1] ELSE run
    /\ UNCHANGED <<file, writes, db, sha256sum, stopCh, locationDB, mux, ctor,
                   ticks, lk, stop, hist>>
    /\ UNCHANGED helperVars

\* ... and returns; on an error reload returns it (the deferred Unlock runs).
ReloadClosed ==
    /\ rl.pc = "closing"
    /\ \E err \in CloseErrs(handles[db]) :
         /\ handles' = [handles EXCEPT ![db] = EndClose(@)]
         /\ IF err
            THEN /\ mux' = Unlock(mux)
                 /\ rl' = ToSelect
                 /\ tick' = EndTick("closeErr")
                 /\ hist' = [hist EXCEPT !.fault = TRUE, !.reloadFailed = TRUE]
            ELSE /\ rl' = [rl EXCEPT !.pc = "open"]
                 /\ UNCHANGED <<mux, tick, hist>>
    /\ UNCHANGED <<file, writes, db, sha256sum, stopCh, locationDB, ctor,
                   ticks, run, lk, stop>>
    /\ UNCHANGED helperVars

\* reload: db, err := openDB(gl.mmdbPath); on an error reload returns it.
ReloadOpen ==
    /\ rl.pc = "open"
    /\ \E ok \in OpenOutcomes(file) :
         IF ok
         THEN /\ handles' = Append(handles, [content |-> file, state |-> "open"])
              /\ rl' = [rl EXCEPT !.pc = "swap", !.newDb = Len(handles) + 1]
              /\ tick' = [tick EXCEPT !.opens = @ + 1]
              /\ UNCHANGED <<mux, hist>>
         ELSE /\ mux' = Unlock(mux)
              /\ rl' = ToSelect
              /\ tick' = [tick EXCEPT !.opens = @ + 1, !.outcome = "openErr"]
              /\ hist' = [hist EXCEPT !.fault = TRUE, !.reloadFailed = TRUE]
              /\ UNCHANGED handles
    /\ run' = IF run.len > 0 THEN [run EXCEPT !.opens = @ + 1] ELSE run
    /\ UNCHANGED <<file, writes, db, sha256sum, stopCh, locationDB, ctor,
                   ticks, lk, stop>>
    /\ UNCHANGED helperVars

\* reload: gl.db = db; gl.sha256sum = newSha256sum; return nil (Unlock).
ReloadSwap ==
    /\ rl.pc = "swap"
    /\ db' = NewHandle(db, rl.newDb)
    /\ sha256sum' = NewFingerprint(sha256sum, rl.sum2)
    /\ mux' = Unlock(mux)
    /\ rl' = ToSelect
    /\ tick' = EndTick("reloaded")
    /\ hist' = [hist EXCEPT !.installed = rl.newDb]
    /\ UNCHANGED <<file, writes, handles, stopCh, locationDB, ctor, ticks,
                   run, lk, stop>>
    /\ UNCHANGED helperVars

Reloader ==
    \/ Tick
    \/ ReloaderStop
    \/ Sample1
    \/ Sample2
    \/ ReloadLock
    \/ ReloadAcquire
    \/ ReloadClose
    \/ ReloadClosed
    \/ ReloadOpen
    \/ ReloadSwap

\* ------------------------------------------------------------------ Lookup
\* A caller enters Lookup(ip).
LookupCall(l) ==
    /\ ctor = "done"
    /\ lk[l].pc = "idle"
    /\ lk' = [lk EXCEPT ![l] = [IdleLooker EXCEPT
                                  !.pc = "rlock",
                                  !.afterStop = hist.stopReturned,
                                  !.beginNew = hist.installed]]
    /\ UNCHANGED <<file, writes, handles, db, sha256sum, stopCh, locationDB,
                   mux, ctor, rl, ticks, tick, run, stop, hist>>
    /\ UNCHANGED helperVars

\* gl.mux.RLock()
LookupRLock(l) ==
    /\ lk[l].pc = "rlock"
    /\ RLockFree(mux.writer)
    /\ mux' = [mux EXCEPT !.readers = @ \cup {l}]
    /\ lk' = [lk EXCEPT ![l].pc = "read", ![l].acq = db]
    /\ UNCHANGED <<file, writes, handles, db, sha256sum, stopCh, locationDB,
                   ctor, rl, ticks, tick, run, stop, hist>>
    /\ UNCHANGED helperVars

\* err := gl.db.Lookup(ip, &record): the field is read and the handle queried.
LookupRead(l) ==
    /\ lk[l].pc = "read"
    /\ \E r \in ReadOutcomes(handles[db].state) :
         lk' = [lk EXCEPT ![l].pc = "ret", ![l].h = db, ![l].res = r]
    /\ UNCHANGED <<file, writes, handles, db, sha256sum, stopCh, locationDB,
                   mux, ctor, rl, ticks, tick, run, stop, hist>>
    /\ UNCHANGED helperVars

\* return (the deferred gl.mux.RUnlock() runs).
LookupReturn(l) ==
    /\ lk[l].pc = "ret"
    /\ mux' = [mux EXCEPT !.readers = @ \ {l}]
    /\ lk' = [lk EXCEPT ![l] = IdleLooker]
    /\ UNCHANGED <<file, writes, handles, db, sha256sum, stopCh, locationDB,
                   ctor, rl, ticks, tick, run, stop, hist>>
    /\ UNCHANGED helperVars

Looker(l) ==
    \/ LookupCall(l)
    \/ LookupRLock(l)
    \/ LookupRead(l)
    \/ LookupReturn(l)

\* -------------------------------------------------------------------- Stop
\* A caller enters Stop(), the calls being made one after the other, and runs
\* its first statement, close(gl.stopCh): closing a closed channel panics.
StopCloseCh ==
    /\ ctor = "done"
    /\ stop.pc = "idle"
    /\ stop.calls < MaxStops
    /\ IF stopCh = "closed"
       THEN /\ stop' = [pc |-> "idle", calls |-> stop.calls + 1, h |-> 0,
                        res |-> "panic", storeTried |-> FALSE]
            /\ UNCHANGED stopCh
       ELSE /\ stopCh' = "closed"
            /\ stop' = [pc |-> "dbClose", calls |-> stop.calls + 1, h |-> 0,
                        res |-> "none", storeTried |-> FALSE]
    /\ UNCHANGED <<file, writes, handles, db, sha256sum, locationDB, mux, ctor,
                   rl, ticks, tick, run, lk, hist>>
    /\ UNCHANGED helperVars

\* if gl.db != nil { err := gl.db.Close() ...: the field is read without the
\* lock and the release of that handle starts ...
StopDbClose ==
    /\ stop.pc = "dbClose"
    /\ handles' = [handles EXCEPT ![db] = BeginClose(@)]
    /\ stop' = [stop EXCEPT !.pc = "dbClosing", !.h = db]
    /\ UNCHANGED <<file, writes, db, sha256sum, stopCh, locationDB, mux, ctor,
                   rl, ticks, tick, run, lk, hist>>
    /\ UNCHANGED helperVars

\* ... and Close returns; on an error Stop returns it at once.
StopDbClosed ==
    /\ stop.pc = "dbClosing"
    /\ \E err \in CloseErrs(handles[stop.h]) :
         /\ handles' = [handles EXCEPT ![stop.h] = EndClose(@)]
         /\ IF err
            THEN /\ stop' = [stop EXCEPT !.pc = "idle", !.res = "dbErr"]
                 /\ hist' = [hist EXCEPT !.stopReturned = TRUE]
            ELSE /\ stop' = [stop EXCEPT !.pc = "storeClose"]
                 /\ UNCHANGED hist
    /\ UNCHANGED <<file, writes, db, sha256sum, stopCh, locationDB, mux, ctor,
                   rl, ticks, tick, run, lk>>
    /\ UNCHANGED helperVars

\* if gl.locationDB != nil { err := gl.locationDB.close() ...}; return.
StopStoreClose ==
    /\ stop.pc = "storeClose"
    /\ locationDB' = "closed"
    /\ \E err \in BOOLEAN :
         stop' = [stop EXCEPT !.pc = "idle", !.storeTried = TRUE,
                              !.res = IF err THEN "storeErr" ELSE "ok"]
    /\ hist' = [hist EXCEPT !.stopReturned = TRUE]
    /\ UNCHANGED <<file, writes, handles, db, sha256sum, stopCh, mux, ctor, rl,
                   ticks, tick, run, lk>>
    /\ UNCHANGED helperVars

Stopper ==
    \/ StopCloseCh
    \/ StopDbClose
    \/ StopDbClosed
    \/ StopStoreClose

\* ----------------------------------------------------------- specification
Next ==
    \/ \E c \in Contents : Write(c)
    \/ CtorLoad
    \/ CtorCleanup
    \/ CtorOpen
    \/ CtorHash
    \/ CtorStore
    \/ Tick
    \/ ReloaderStop
    \/ Sample1
    \/ Sample2
    \/ ReloadLock
    \/ ReloadAcquire
    \/ ReloadClose
    \/ ReloadClosed
    \/ ReloadOpen
    \/ ReloadSwap
    \/ \E l \in Lookers : LookupCall(l)
    \/ \E l \in Lookers : LookupRLock(l)
    \/ \E l \in Lookers : LookupRead(l)
    \/ \E l \in Lookers : LookupReturn(l)
    \/ StopCloseCh
    \/ StopDbClose
    \/ StopDbClosed
    \/ StopStoreClose

Spec == Init /\ [][Next]_vars

\* Liveness is checked with one Lookup caller, LiveLookers: the behaviours of
\* the service in which the other callers never call.  One reader is enough to
\* hold the lock a reload waits for.
LiveLookers == {l \in Lookers : l = NumLookers}

LiveNext ==
    \/ \E c \in Contents : Write(c)
    \/ CtorLoad
    \/ CtorCleanup
    \/ CtorOpen
    \/ CtorHash
    \/ CtorStore
    \/ Tick
    \/ ReloaderStop
    \/ Sample1
    \/ Sample2
    \/ ReloadLock
    \/ ReloadAcquire
    \/ ReloadClose
    \/ ReloadClosed
    \/ ReloadOpen
    \/ ReloadSwap
    \/ \E l \in LiveLookers : LookupCall(l)
    \/ \E l \in LiveLookers : LookupRLock(l)
    \/ \E l \in LiveLookers : LookupRead(l)
    \/ \E l \in LiveLookers : LookupReturn(l)
    \/ StopCloseCh
    \/ StopDbClose
    \/ StopDbClosed
    \/ StopStoreClose

\* The Go scheduler runs every runnable goroutine: the reloader's steps and
\* the steps of a Lookup or a Stop in progress are taken once they stay
\* possible.  No fairness is assumed of the callers' decision to call, nor of
\* the external writer.
FairSpec ==
    /\ Init
    /\ [][LiveNext]_vars
    /\ WF_vars(Reloader)
    /\ \A l \in LiveLookers :
         WF_vars(LookupRLock(l) \/ LookupRead(l) \/ LookupReturn(l))
    /\ WF_vars(StopDbClose \/ StopDbClosed \/ StopStoreClose)

\* ------------------------------------------- the file and metadata helpers
NoCall == [op |-> "none"]

\* A file appears in the data directory (no call is on record any more).
Create(n) ==
    /\ n \notin dir
    /\ Cardinality(dir) < MaxFiles
    /\ dir' = dir \cup {n}
    /\ call' = NoCall
    /\ UNCHANGED serviceVars

\* cleanupMaxMindDatabases(dataDir, mmdbFile, geonamesdbFile); os.Remove fails
\* on file bad, if it is asked to remove it.  (One call is on record at a
\* time: the next one is made once the directory has changed.)
Cleanup ==
    /\ call = NoCall
    /\ \E mmdbFile \in MmdbFiles, geonamesdbFile \in GeonamesFiles,
          bad \in dir \cup {NoFile} :
         LET r == cleanupMaxMindDatabases(dir, mmdbFile, geonamesdbFile, bad)
         IN  /\ dir' = r.dir
             /\ call' = [op |-> "cleanup", dir |-> dir, mmdbFile |-> mmdbFile,
                         geonamesdbFile |-> geonamesdbFile, err |-> r.err]
    /\ UNCHANGED serviceVars

\* getDatabaseFilename(url, pattern, autoUpdate), for either pattern.
Select ==
    /\ call = NoCall
    /\ \E pattern \in {mmdbPattern, geonamesdbPattern}, autoUpdate \in BOOLEAN,
          remote \in RemoteOutcomes :
         call' = [op |-> "select", dir |-> dir, pattern |-> pattern,
                  autoUpdate |-> autoUpdate, remote |-> remote,
                  out |-> getDatabaseFilename(pattern, autoUpdate, remote, dir)]
    /\ UNCHANGED dir
    /\ UNCHANGED serviceVars

\* gl.GetAllCountries()
Countries ==
    /\ \E store \in StoreOutcomes(CountryRows) :
         call' = [op |-> "countries", store |-> store,
                  out |-> GetAllCountries(store)]
    /\ UNCHANGED dir
    /\ UNCHANGED serviceVars

\* gl.GetCitiesByCountry(countryISOCode)
Cities ==
    /\ \E store \in StoreOutcomes(CityRows) :
         call' = [op |-> "cities", store |-> store,
                  out |-> GetCitiesByCountry(store)]
    /\ UNCHANGED dir
    /\ UNCHANGED serviceVars

\* The helpers that work on the data directory, from any directory of at most
\* MaxFiles files, beside a service that has not been constructed.
FilesInit == Init /\ file = 1
FilesNext ==
    \/ \E n \in FileNames : Create(n)
    \/ Cleanup
    \/ Select
FilesSpec == FilesInit /\ [][FilesNext]_vars

\* The metadata queries, for any answer of the store.
StoreInit == Init /\ file = 1
StoreNext ==
    \/ Countries
    \/ Cities
StoreSpec == StoreInit /\ [][StoreNext]_vars

\* ------------------------------------------------------------------ claims
\* Stop has not been invoked.
Running == stop.calls = 0

\* C1: while Stop has not been invoked and every reload so far has got through
\* its open (no reload has returned an error), a Lookup in its read section
\* holds read access, the active handle is open and no writer holds the lock,
\* what it reads is an open handle and it gets a record; and the reload closes,
\* opens and replaces the handle only with the lock held exclusively: only then
\* is the active handle not open, or any handle in the middle of being closed.
C1_NoLookupOnClosedHandle ==
    (Running /\ ~hist.reloadFailed) =>
        /\ \A l \in Lookers :
             lk[l].pc \in {"read", "ret"} =>
                 /\ l \in mux.readers
                 /\ mux.writer # "held"
                 /\ handles[db].state = "open"
                 /\ lk[l].pc = "ret" =>
                        /\ lk[l].res = "ok"
                        /\ handles[lk[l].h].state = "open"
        /\ rl.pc \in {"close", "closing", "open", "swap"} =>
               /\ mux.writer = "held"
               /\ mux.readers = {}
        /\ \A i \in 1..Len(handles) :
               (i = db \/ handles[i].state = "closing") =>
                   (handles[i].state # "open" => mux.writer = "held")

\* C1's case: a Lookup holds the lock with its record while a reload waits for
\* it and another Lookup waits behind the reload.
C1_Witness ==
    /\ Running
    /\ ~hist.reloadFailed
    /\ rl.pc = "acquire"
    /\ \E l, m \in Lookers :
         /\ lk[l].pc = "ret"
         /\ lk[l].res = "ok"
         /\ lk[m].pc = "rlock"

\* C2: after a reload whose open failed, the handle that was active before is
\* still the active one and still open, and the fingerprint is the one
\* recorded before.
C2_FailedOpenKeepsHandle ==
    (Running /\ rl.pc = "select" /\ tick.outcome = "openErr") =>
        /\ db = tick.db0
        /\ sha256sum = tick.sha0
        /\ handles[db].state = "open"

\* C3: no call of Stop panics, however many calls came before it.
C3_StopTwiceNoPanic == stop.res # "panic"

\* C4: a Lookup that began after a Stop had returned fails with an error.  (The
\* code has no "service stopped" outcome of its own; the only error it can
\* report is the released reader's, which is taken here for the outcome the
\* claim asks for.)
C4_LookupAfterStopFails ==
    \A l \in Lookers :
        (lk[l].afterStop /\ lk[l].pc = "ret") => lk[l].res = "closedErr"

\* C5: after N >= 1 consecutive ticks whose sample equalled the recorded
\* fingerprint, the coordinator has hashed the file exactly N times, opened and
\* closed no handle, and the active handle and the fingerprint are those of the
\* start of the run.
C5_UnchangedTicksDoNothing ==
    (rl.pc = "select" /\ run.len >= 1) =>
        /\ run.hashes = run.len
        /\ run.opens = 0
        /\ run.closes = 0
        /\ db = run.db0
        /\ sha256sum = run.sha0

\* C5's case: two consecutive ticks found the file unchanged.
C5_Witness == rl.pc = "select" /\ run.len >= 2

\* C6: with the service running and no hash, close or open failing: before the
\* file changes no reload happens; once it has changed exactly once (since the
\* fingerprint was recorded) to well-formed content there is at most one
\* reload, and as soon as a tick that sampled after the change is over, and at
\* the end of every later tick, the one reload has happened: the second handle
\* ever opened is the active one, it is open, it was opened from the new
\* content, and the fingerprint is the hash of the new content.
C6_OneChangeOneReload ==
    (stopCh = "open" /\ ~hist.fault) =>
        /\ hist.wr = 0 => Len(handles) <= 1
        /\ (hist.wr = 1 /\ WellFormed(file)) =>
               /\ Len(handles) <= 2
               /\ (rl.pc = "select" /\ hist.sampled) =>
                      /\ Len(handles) = 2
                      /\ db = 2
                      /\ handles[db] = [content |-> file, state |-> "open"]
                      /\ sha256sum = Hash(file)

\* C6's case: the file changed once, the first tick reloaded, and a later tick
\* found nothing to do.
C6_Witness ==
    /\ stopCh = "open"
    /\ ~hist.fault
    /\ hist.wr = 1
    /\ rl.pc = "select"
    /\ ticks = 2
    /\ tick.outcome = "unchanged"
    /\ db = 2

\* C7: whenever the two samples of a cycle are on record, the first differing
\* from the fingerprint recorded at the start of the cycle and the second from
\* the first, the coordinator is back at its select (it neither went on to the
\* reload nor exited), it opened and closed no handle in the cycle, and the
\* active handle and the fingerprint are those of the start of the cycle.
C7_UnstableSamplesSkipCycle ==
    (/\ rl.sum1 # NoSum
     /\ rl.sum2 # NoSum
     /\ rl.sum1 # tick.sha0
     /\ rl.sum2 # rl.sum1) =>
        /\ rl.pc = "select"
        /\ tick.outcome = "unstable"
        /\ tick.hashes = 2
        /\ tick.opens = 0
        /\ tick.closes = 0
        /\ db = tick.db0
        /\ sha256sum = tick.sha0

\* C7's case: a cycle ended on two differing samples.
C7_Witness ==
    /\ rl.pc = "select"
    /\ tick.outcome = "unstable"
    /\ rl.sum1 # rl.sum2
    /\ rl.sum1 # sha256sum

\* C8: while a Lookup holds read access the active handle is the one that was
\* active when it acquired it; the handle it reads is that one, and it is the
\* handle that the last reload completed before the call began installed, or a
\* later one, never one superseded before the call began.
C8_LookupReadsActiveHandle ==
    \A l \in Lookers :
        /\ lk[l].pc \in {"read", "ret"} => lk[l].acq = db
        /\ lk[l].pc = "ret" =>
               /\ lk[l].h = lk[l].acq
               /\ lk[l].h >= lk[l].beginNew

\* C8's case: a Lookup that began after a swap has read the new handle.
C8_Witness ==
    \E l \in Lookers :
        /\ lk[l].pc = "ret"
        /\ lk[l].beginNew >= 2
        /\ lk[l].h = lk[l].beginNew
        /\ lk[l].res = "ok"

\* C9: once stopCh is closed the coordinator leaves its select only by exiting
\* (no tick begins); it exits only from its select, never from within a cycle;
\* having exited it stays so; and it eventually exits.
C9_StopEndsCoordinator ==
    /\ [][(stopCh = "closed" /\ rl.pc = "select")
             => rl'.pc \in {"select", "stopped"}]_vars
    /\ [][rl.pc \notin {"select", "stopped"} => rl'.pc # "stopped"]_vars
    /\ [][rl.pc = "stopped" => rl'.pc = "stopped"]_vars
    /\ (stopCh = "closed" ~> rl.pc = "stopped")

\* C9's case: Stop came and returned during a cycle, the cycle ran to its end
\* (its reload installed a handle after Stop's close) and the coordinator
\* then exited.
C9_Witness ==
    /\ rl.pc = "stopped"
    /\ hist.stopReturned
    /\ db >= 2
    /\ handles[db].state = "open"

\* C10: a call of Stop that returns the dataset handle's close error has
\* attempted the close of the metadata store.
C10_StoreCloseAttempted == stop.res = "dbErr" => stop.storeTried

\* The files of directory d that a cleanup keeping mmdbFile and geonamesdbFile
\* is to delete: those that match a pattern and are not its current file.
Stale(d, mmdbFile, geonamesdbFile) ==
    {n \in d : \/ Matches(mmdbPattern, n) /\ n # mmdbFile
               \/ Matches(geonamesdbPattern, n) /\ n # geonamesdbFile}

\* C11: a cleanup that returned no error has removed from the directory every
\* file that matches a pattern and is not that pattern's current file, and
\* nothing else: the current files and the files matching no pattern are where
\* they were, and no file has appeared.
C11_CleanupRemovesOldFiles ==
    (call.op = "cleanup" /\ ~call.err) =>
        dir = call.dir \ Stale(call.dir, call.mmdbFile, call.geonamesdbFile)

\* C11's case: of three dated files the last one is the current file; it was
\* kept and the other two were removed.
C11_Witness ==
    /\ call.op = "cleanup"
    /\ ~call.err
    /\ call.mmdbFile \in dir
    /\ Cardinality({n \in call.dir : Matches(mmdbPattern, n)}) = 3
    /\ Cardinality({n \in dir : Matches(mmdbPattern, n)}) = 1
    /\ \A n \in call.dir :
         Matches(mmdbPattern, n) =>
             (n = call.mmdbFile \/ LexLess(n.mid, call.mmdbFile.mid))

\* C12: when remote discovery was not asked for, or was asked for and failed,
\* the selector returns the last, in lexical order, of the names in the
\* directory that match the pattern, and an error with no name when none does.
C12_SelectsLastExisting ==
    (call.op = "select" /\ (~call.autoUpdate \/ call.remote.err)) =>
        LET found == {n \in call.dir : Matches(call.pattern, n)}
        IN  IF found = {}
            THEN call.out = [res |-> "err", name |-> NoFile]
            ELSE /\ call.out.res = "ok"
                 /\ call.out.name \in found
                 /\ \A n \in found :
                      n = call.out.name \/ LexLess(n.mid, call.out.name.mid)

\* C12's case: remote discovery failed and the directory held three matching
\* names, one a proper prefix of another.
C12_Witness ==
    /\ call.op = "select"
    /\ call.autoUpdate
    /\ call.remote.err
    /\ call.out.res = "ok"
    /\ Cardinality({n \in call.dir : Matches(call.pattern, n)}) = 3
    /\ \E n \in call.dir :
         /\ Matches(call.pattern, n)
         /\ Len(n.mid) < Len(call.out.name.mid)

\* The display name of a row of the query on record.
DisplayName(row) ==
    IF call.op = "countries" THEN row.CountryName ELSE row.CityName

\* C13: GetAllCountries and GetCitiesByCountry return the store's error as it
\* is, with no rows; otherwise no error and exactly the store's rows whose
\* display name is not empty, each once, as the store gave it, in the store's
\* order.
C13_QueriesDropUnnamedRows ==
    call.op \in {"countries", "cities"} =>
        LET all == call.store.rows
            got == call.out.rows
            named == {i \in 1..Len(all) : DisplayName(all[i]) # ""}
        IN  IF call.store.err # "nil"
            THEN call.out = [rows |-> <<>>, err |-> call.store.err]
            ELSE /\ call.out.err = "nil"
                 /\ Len(got) = Cardinality(named)
                 /\ \E at \in [1..Len(got) -> named] :
                      /\ \A j, k \in 1..Len(got) : j < k => at[j] < at[k]
                      /\ \A k \in 1..Len(got) : got[k] = all[at[k]]

\* C13's case: the store returned three countries, the middle one without a
\* name, and the query returned the other two.
C13_Witness ==
    /\ call.op = "countries"
    /\ call.store.err = "nil"
    /\ Len(call.store.rows) = 3
    /\ call.store.rows[2].CountryName = ""
    /\ Len(call.out.rows) = 2
    /\ call.out.rows[1] # call.out.rows[2]

\* C14: the coordinator reads the backing file (a fingerprint computation, an
\* open of a new handle) only while it does not hold the handle lock
\* exclusively.
C14_NoFileIOUnderLock ==
    [][(tick'.hashes > tick.hashes \/ tick'.opens > tick.opens)
          => mux.writer # "held"]_vars

\* C15: once the service is constructed, a step changes the active handle if
\* and only if it changes the recorded fingerprint, and such a step is taken
\* with the lock held exclusively and sets the fingerprint to the second
\* sample, which equals the first; and after a tick that ended on an unchanged
\* hash, on unstable samples or on a hash, close or open error, the active
\* handle and the fingerprint are those of the start of the tick.
C15_HandleAndFingerprintTogether ==
    /\ [][ctor = "done" =>
            /\ (db' # db) <=> (sha256sum' # sha256sum)
            /\ db' # db =>
                   /\ mux.writer = "held"
                   /\ rl.sum2 # NoSum
                   /\ rl.sum1 = rl.sum2
                   /\ sha256sum' = rl.sum2]_vars
    /\ [](rl.pc = "select" /\ tick.outcome \in
              {"unchanged", "unstable", "hashErr", "closeErr", "openErr"}
            => db = tick.db0 /\ sha256sum = tick.sha0)

\* C15's case: a tick replaced the handle and the fingerprint.
C15_Witness ==
    /\ rl.pc = "select"
    /\ tick.outcome = "reloaded"
    /\ db # tick.db0
    /\ sha256sum # tick.sha0
    /\ sha256sum = rl.sum2

\* C16: while Stop's close of the dataset handle is in progress, no Lookup that
\* was called before Stop returned is in its read section on that handle (read
\* access acquired, the handle about to be queried).
C16_StopCloseNeverOverlapsLookup ==
    \A l \in Lookers :
        ~ /\ stop.pc = "dbClosing"
          /\ lk[l].pc = "read"
          /\ ~lk[l].afterStop
          /\ lk[l].acq = stop.h
          /\ handles[stop.h].state = "closing"

\* C17: once a call of Stop has returned and the coordinator has exited, no
\* dataset handle is open.
C17_NoHandleOpenAfterStop ==
    (hist.stopReturned /\ stop.pc = "idle" /\ rl.pc = "stopped") =>
        \A i \in 1..Len(handles) : handles[i].state # "open"

\* C18: after a tick in which a fingerprint computation failed, the coordinator
\* is back at its select (it has not exited), it closed and opened no handle in
\* the tick, the active handle and the fingerprint are those of the start of
\* the tick, and the coordinator's next step is the first sample of the next
\* tick (or its exit, once Stop has signalled).
C18_HashErrorSkipsCycle ==
    /\ [](tick.outcome = "hashErr" =>
            /\ rl.pc = "select"
            /\ tick.opens = 0
            /\ tick.closes = 0
            /\ db = tick.db0
            /\ sha256sum = tick.sha0)
    /\ [][(tick.outcome = "hashErr" /\ rl' # rl) =>
            \/ rl'.pc = "sample1" /\ tick'.outcome = "running"
            \/ rl'.pc = "stopped" /\ stopCh = "closed"]_vars

\* C18's case: the second sample of the second tick failed.
C18_Witness ==
    /\ tick.outcome = "hashErr"
    /\ tick.hashes = 2
    /\ ticks = 2
    /\ rl.sum1 # NoSum

\* C19: every call of Lookup eventually returns, and whenever the coordinator
\* is not inside reload (at its select, exited, or not started) nobody holds or
\* awaits the handle lock exclusively.
C19_LookupReturns ==
    /\ \A l \in LiveLookers : lk[l].pc # "idle" ~> lk[l].pc = "idle"
    /\ [](rl.pc \in {"none", "select", "sample1", "sample2", "lock", "stopped"}
            => mux.writer = "none")

\* C19's case: a Lookup waits for the lock while a reload that is about to
\* fail holds it, after an earlier tick.
C19_Witness ==
    /\ \E l \in LiveLookers : lk[l].pc = "rlock"
    /\ mux.writer = "held"
    /\ rl.pc = "open"
    /\ ~WellFormed(file)
    /\ ticks = 2

\* C20: whenever the coordinator is at its select and Stop has not been
\* invoked, the recorded fingerprint is the hash of the content from which the
\* active handle was opened.
C20_FingerprintMatchesHandle ==
    (ctor = "done" /\ Running /\ rl.pc = "select") =>
        sha256sum = Hash(handles[db].content)

\* C21: when the constructor has returned an error, the coordinator has not
\* been started and no dataset handle is open.
C21_FailedConstructionLeavesNothing ==
    ctor = "failed" =>
        /\ rl.pc = "none"
        /\ \A i \in 1..Len(handles) : handles[i].state # "open"

====
